---- MODULE Spec2Model ----
(***************************************************************************)
(* Model of the podcast scraper: the SQLite episode store (src/db.py), the *)
(* scrape / adhoc ingestion loops (src/cli.py), the audio cache            *)
(* (src/transcribe.py) and the bounded JSON export with excerpts           *)
(* (src/export.py).                                                        *)
(*                                                                         *)
(* Text values (transcripts) are sequences of one-character strings.       *)
(* Python's None is the value None below for text values and the string    *)
(* "None" for atomic values (titles, dates, urls, paths).                  *)
(***************************************************************************)
EXTENDS Integers, Sequences, FiniteSets, TLC

VARIABLES
    store,          \* the episodes table: a sequence of rows in insertion order
    now,            \* the wall clock read by datetime.now(timezone.utc)
    files,          \* the audio cache directory: cache path -> state of the file
    op,             \* history: the store operation a caller ran last, or NoOp
    pc,             \* where the running command stands ("idle": none is running)
    cmd,            \* the running command: "scrape" or "adhoc"
    work,           \* groups_to_process: a sequence of feed lists (feed names)
    gi, fi,         \* index of the current group in work, of the feed in its list
    episodes,       \* len(episodes) of the current feed; the entries themselves
                    \* are drawn when the loop reaches them
    ei,             \* index of the current entry of the current feed
    ep,             \* the current entry
    transcript, transcript_source, audio_path,    \* locals of the loop body
    written,        \* chunks download_audio has written to the open file
    total_new,      \* total_new (scrape), new_count (adhoc)
    total_skipped,
    calls,          \* history: collaborators invoked for the current entry
    last,           \* history: how the last finished entry ended
    xpc,            \* where export_transcripts_json stands
    xargs,          \* its arguments
    xepisodes,      \* episodes: the rows fetched, most recent first
    xi,             \* index in xepisodes of the row the loop reaches next
    selected,       \* selected
    per_feed_counts,
    xresult,        \* the payload returned
    query,          \* a direct call of db.fetch_recent or db.fetch_by_group
    etext,          \* text passed to _excerpt_transcript
    emax,           \* max_chars passed to it
    eresult,        \* what it returned, or None before the call
    wk,             \* two commands at once: the position and locals of each
    wep,            \* the entry both of them work on
    wfile,          \* the file at the cache path of its audio url
    wlog,           \* history: the store_episode calls committed, in commit order
    raw,            \* an entry of a parsed feed, as feedparser yields it
    norm,           \* the Episode parse_feed makes of it, or NoEpisode before
    fpc,            \* parse_feed on a whole feed: "idle", "feed", "parsed", "raised"
    fentries,       \* feed.entries, in the order of the document
    fbozo,          \* feed.bozo
    fmax,           \* max_episodes
    fepisodes       \* the list of Episodes returned

runVars == <<pc, cmd, work, gi, fi, episodes, ei, ep, transcript, transcript_source,
            audio_path, written, total_new, total_skipped, calls, last>>

exportVars == <<xpc, xargs, xepisodes, xi, selected, per_feed_counts, xresult, query>>

excerptVars == <<etext, emax, eresult>>

raceVars == <<wk, wep, wfile, wlog>>

parseVars == <<raw, norm>>

feedVars == <<fpc, fentries, fbozo, fmax, fepisodes>>

\* what the ingestion commands and the store calls leave alone
notIngest == <<exportVars, excerptVars, raceVars, parseVars, feedVars>>

\* what an export leaves alone
notExport == <<store, now, files, op, runVars, excerptVars, raceVars, parseVars, feedVars>>

\* what an excerpt leaves alone
notExcerpt == <<store, now, files, op, runVars, exportVars, raceVars, parseVars, feedVars>>

\* what two commands running at once leave alone
notRace == <<files, op, runVars, exportVars, excerptVars, parseVars, feedVars>>

\* what the normalization of a feed entry leaves alone
notParse == <<store, now, files, op, runVars, exportVars, excerptVars, raceVars, feedVars>>

\* what parse_feed on a whole feed leaves alone
notFeed == <<store, now, files, op, runVars, exportVars, excerptVars, raceVars, parseVars>>

vars == <<store, now, files, op, runVars, exportVars, excerptVars, raceVars, parseVars,
          feedVars>>

\* ------------------------------------------------------------------ bounds

\* the clock stops advancing at MaxClock
MaxClock == 1

\* the most entries parse_feed returns for one feed
MaxEpisodes == 2

\* the chunks iter_content yields for one audio resource
AudioChunks == 1

\* the most rows the exported store holds
MaxRows == 3

\* the largest max_episodes_total and max_episodes_per_feed passed
MaxCap == 2

\* the longest run of letters before and after the whitespace of an excerpted text
MaxFill == 6

\* the largest max_chars passed to _excerpt_transcript
MaxBudget == 14

\* ------------------------------------------------------------------- text

None == <<"None">>
SP == " "
NL == "\n"
TAB == "\t"
CR == "\r"
Whitespace == {SP, NL, TAB, CR}

\* Python truthiness of an Optional[str]
Truthy(s) == s # None /\ s # <<>>

\* str.strip(): drop leading and trailing whitespace
RECURSIVE LStrip(_)
LStrip(s) == IF s # <<>> /\ Head(s) \in Whitespace THEN LStrip(Tail(s)) ELSE s

RECURSIVE RStrip(_)
RStrip(s) ==
    IF s # <<>> /\ s[Len(s)] \in Whitespace THEN RStrip(SubSeq(s, 1, Len(s) - 1)) ELSE s

Strip(s) == RStrip(LStrip(s))

\* len(s.split()): the number of maximal runs of non-whitespace characters
RECURSIVE SplitCount(_)
SplitCount(s) ==
    IF s = <<>> THEN 0
    ELSE IF Head(s) \in Whitespace THEN SplitCount(Tail(s))
    ELSE IF Len(s) = 1 \/ s[2] \in Whitespace THEN 1 + SplitCount(Tail(s))
    ELSE SplitCount(Tail(s))

\* ---------------------------------------------------------------- excerpts

DOT == "."

\* text.replace("\r\n", "\n").replace("\r", "\n")
RECURSIVE UnifyNewlines(_)
UnifyNewlines(s) ==
    IF s = <<>> THEN <<>>
    ELSE IF Head(s) = CR /\ Len(s) >= 2 /\ s[2] = NL THEN <<NL>> \o UnifyNewlines(Tail(Tail(s)))
    ELSE IF Head(s) = CR THEN <<NL>> \o UnifyNewlines(Tail(s))
    ELSE <<Head(s)>> \o UnifyNewlines(Tail(s))

\* re.sub(r"[ \t]+", " ", t)
RECURSIVE CollapseBlanks(_)
CollapseBlanks(s) ==
    IF s = <<>> THEN <<>>
    ELSE IF Head(s) \in {SP, TAB}
    THEN IF Len(s) >= 2 /\ s[2] \in {SP, TAB}
         THEN CollapseBlanks(Tail(s))
         ELSE <<SP>> \o CollapseBlanks(Tail(s))
    ELSE <<Head(s)>> \o CollapseBlanks(Tail(s))

\* re.sub(r"\n{3,}", "\n\n", t)
RECURSIVE CollapseNewlines(_)
CollapseNewlines(s) ==
    IF s = <<>> THEN <<>>
    ELSE IF Len(s) >= 3 /\ s[1] = NL /\ s[2] = NL /\ s[3] = NL
    THEN CollapseNewlines(Tail(s))
    ELSE <<Head(s)>> \o CollapseNewlines(Tail(s))

\* _normalize_excerpt_text
NormalizeExcerptText(text) == Strip(CollapseNewlines(CollapseBlanks(UnifyNewlines(text))))

\* the slice t[a:b] of Python, a and b counted from 0 and clipped to the text
Slice(t, a, b) ==
    LET lo == IF a < 0 THEN 0 ELSE a
        hi == IF b > Len(t) THEN Len(t) ELSE b
    IN IF lo >= hi THEN <<>> ELSE SubSeq(t, lo + 1, hi)

Max(a, b) == IF a >= b THEN a ELSE b

ElisionSep == <<NL, DOT, DOT, DOT, NL>>

\* the least size of each of the three parts
MinPart == 200

\* part = max(200, budget // 3)
PartSize(budget) == Max(MinPart, budget \div 3)

\* if len(t) <= max_chars: return t
ShortText(t, max_chars) == t

\* _excerpt_transcript
ExcerptTranscript(text, max_chars) ==
    LET t == NormalizeExcerptText(text)
        overhead == Len(ElisionSep) * 2
        budget == max_chars - overhead
        part == PartSize(budget)
        head == Slice(t, 0, part)
        mid_start == Max(0, (Len(t) \div 2) - (part \div 2))
        mid == Slice(t, mid_start, mid_start + part)
        tail == Slice(t, Len(t) - part, Len(t))
    IN IF max_chars <= 0 THEN <<>>
       ELSE IF Len(t) <= max_chars THEN ShortText(t, max_chars)
       ELSE IF budget <= 0 THEN Strip(Slice(t, 0, max_chars))
       ELSE Strip(Strip(head) \o ElisionSep \o Strip(mid) \o ElisionSep \o Strip(tail))

\* ------------------------------------------------------------ episode store

Ids == {"i1", "i2"}
FeedNames == {"A", "B"}
FeedUrlOf(f) == IF f = "A" THEN "urlA" ELSE "urlB"
Titles == {"T1", "T2"}
Dates == {"None", "d1"}
AudioUrls == {"u1"}
TranscriptUrls == {"t1"}

\* _episode_cache_path: sha256(url)[:16] + extension, one path per url here
EpisodeCachePath(audio_url) == IF audio_url = "u1" THEN "p1" ELSE "p2"
CachePaths == {EpisodeCachePath(u) : u \in AudioUrls}

\* mutant: the dedup check looks at the oldest row only
EpisodeExistsOldest(rows, episode_id) ==
    rows # <<>> /\ rows[1].id = episode_id

\* mutant: the dedup check looks at the newest row only
EpisodeExistsNewest(rows, episode_id) ==
    rows # <<>> /\ rows[Len(rows)].id = episode_id

\* mutant: the lookup never finds the row
EpisodeExistsNever(rows, episode_id) == FALSE

\* db.episode_exists: SELECT 1 FROM episodes WHERE id = ?
EpisodeExists(rows, episode_id) == \E i \in 1..Len(rows) : rows[i].id = episode_id

\* word_count = len(transcript.split()) if transcript else 0
WordCount(text) == IF Truthy(text) THEN SplitCount(text) ELSE 0

NewRow(a, t) ==
    [id |-> a.id, feed_name |-> a.feed_name, feed_url |-> a.feed_url,
     title |-> a.title, published_at |-> a.published_at,
     audio_url |-> a.audio_url, audio_path |-> a.audio_path,
     transcript |-> a.transcript, transcript_source |-> a.transcript_source,
     scraped_at |-> t, word_count |-> WordCount(a.transcript)]

\* mutant: the conflict clause adds the new word count to the stored one
ConflictAddsWords(row, a, t) ==
    [row EXCEPT !.transcript = a.transcript,
                !.transcript_source = a.transcript_source,
                !.audio_path = a.audio_path,
                !.scraped_at = t,
                !.word_count = @ + (IF Truthy(a.transcript) THEN SplitCount(a.transcript) ELSE 0)]

\* mutant: the conflict clause leaves word_count as it was
ConflictStaleCount(row, a, t) ==
    [row EXCEPT !.transcript = a.transcript,
                !.transcript_source = a.transcript_source,
                !.audio_path = a.audio_path,
                !.scraped_at = t]

\* mutant: the conflict clause overwrites the whole row
ConflictReplace(row, a, t) == NewRow(a, t)

\* ON CONFLICT(id) DO UPDATE SET transcript, transcript_source, audio_path,
\* scraped_at, word_count = excluded.*
ConflictUpdate(row, a, t) ==
    [row EXCEPT !.transcript = a.transcript,
                !.transcript_source = a.transcript_source,
                !.audio_path = a.audio_path,
                !.scraped_at = t,
                !.word_count = WordCount(a.transcript)]

\* mutant: INSERT OR IGNORE, the row of the first writer stays
StoreEpisodeKeepFirst(rows, a, t) ==
    IF \E i \in 1..Len(rows) : rows[i].id = a.id THEN rows ELSE Append(rows, NewRow(a, t))

\* mutant: the table has no primary key, every call inserts
StoreEpisodeNoKey(rows, a, t) == Append(rows, NewRow(a, t))

\* db.store_episode: INSERT ... ON CONFLICT(id) DO UPDATE, then commit
StoreEpisode(rows, a, t) ==
    IF EpisodeExists(rows, a.id)
    THEN [i \in 1..Len(rows) |->
            IF rows[i].id = a.id THEN ConflictUpdate(rows[i], a, t) ELSE rows[i]]
    ELSE Append(rows, NewRow(a, t))

\* the row stored under an id (the store holds at most one, see C1)
RowOf(rows, episode_id) ==
    rows[CHOOSE i \in 1..Len(rows) : rows[i].id = episode_id]

\* -------------------------------------------------------------- audio cache

\* a file of the cache directory: absent, or present with chunks written
NoFile == [present |-> FALSE, chunks |-> 0]
FileOf(n) == [present |-> TRUE, chunks |-> n]

\* mutant: a complete file is downloaded again
CacheHitEmptyFile(f) == f.present /\ f.chunks = 0

\* mutant: the cache is never consulted
CacheHitNever(f) == FALSE

\* if os.path.exists(local_path): return local_path
CacheHit(f) == f.present

\* ------------------------------------------------------ the ingestion loops

NoEntry == [id |-> "None", title |-> "None", published_at |-> "None",
            audio_url |-> "None", transcript_url |-> "None"]

InitRun ==
    /\ pc = "idle"
    /\ cmd = "none"
    /\ work = <<>>
    /\ gi = 0 /\ fi = 0
    /\ episodes = 0 /\ ei = 0
    /\ ep = NoEntry
    /\ transcript = None /\ transcript_source = "None" /\ audio_path = "None"
    /\ written = 0
    /\ total_new = 0 /\ total_skipped = 0
    /\ calls = {}
    /\ last = "none"

\* feeds.json as load_feeds returns it: group -> feed names, in file order
GroupOrder == <<"g1", "g2">>
FeedsFile == [g1 |-> <<"A", "B">>, g2 |-> <<"A">>]

\* the entries a feed may hold, as parse_feed normalizes them: every id with
\* both urls, the audio url alone, the transcript url alone, or neither
Entries ==
    {e \in [id : Ids, title : Titles, published_at : Dates,
            audio_url : {"None"} \cup AudioUrls,
            transcript_url : {"None"} \cup TranscriptUrls] :
        /\ (e.published_at = "None") <=> (e.title = "T2")
        /\ (e.title = "T2") <=> (e.transcript_url = "None")}

\* what fetch_transcript returns: None on a RequestException, else resp.text
FetchResults == {None, <<>>, <<"a", SP, "b">>}

\* what transcribe_audio returns when it does not raise
TranscribeResults == {<<>>, <<"a">>}

Position(p, g, f, e) == [pc |-> p, gi |-> g, fi |-> f, ei |-> e]

Goto(r) == pc' = r.pc /\ gi' = r.gi /\ fi' = r.fi /\ ei' = r.ei

\* the feed loops move on: next feed of the group, next group, or the end
NextFeed ==
    IF fi < Len(work[gi]) THEN Position("parse", gi, fi + 1, 0)
    ELSE IF gi < Len(work) THEN Position("parse", gi + 1, 1, 0)
    ELSE Position("done", gi, fi, ei)

\* `continue` in the episode loop: next entry of the feed, else the next feed
NextEpisode == IF ei < episodes THEN Position("episode", gi, fi, ei + 1) ELSE NextFeed

\* mutant: the handler leaves the episode loop instead of continuing it
BreakEpisodes == NextFeed

\* mutant: a feed that fails to parse ends the batch
ParseErrorEndsBatch == Position("done", gi, fi, ei)

\* except Exception around parse_feed: continue with the next feed
OnParseError == NextFeed

\* except Exception around download_audio / transcribe_audio: continue
OnTranscriptionError == NextEpisode

\* mutant: strategy 2 runs whenever there is an audio url
NeedsAudioAlways(text, e) == e.audio_url # "None"

\* if not transcript and ep.audio_url
NeedsAudio(text, e) == ~Truthy(text) /\ e.audio_url # "None"

\* mutant: the episode is stored whatever the strategies produced
NeverSkips(text) == FALSE

\* if not transcript: continue
Skips(text) == ~Truthy(text)

\* mutant: a failed transcript fetch abandons the episode
AfterStrategy1NoFallback(text, e) == IF Truthy(text) THEN "store" ELSE "skip"

\* where the loop body goes after strategy 1
AfterStrategy1(text, e) ==
    IF NeedsAudio(text, e) THEN "download"
    ELSE IF Skips(text) THEN "skip"
    ELSE "store"

CurrentFeed == work[gi][fi]

ResetLocals ==
    /\ transcript' = None /\ transcript_source' = "None" /\ audio_path' = "None"
    /\ written' = 0

\* the loops reach position r; an entry reached is drawn from the feed there
Enter(r) ==
    /\ Goto(r)
    /\ IF r.pc = "episode" THEN ep' \in Entries ELSE ep' = NoEntry

\* the loop body is left for position r with the given outcome; its locals are
\* dead from here on (the next turn assigns them before reading them)
Leave(outcome, r) ==
    /\ last' = outcome
    /\ Enter(r)
    /\ ResetLocals

\* the process ends: nothing of the command is left but the store and the cache
Exit ==
    /\ pc' = "idle"
    /\ cmd' = "none"
    /\ work' = <<>>
    /\ gi' = 0 /\ fi' = 0
    /\ episodes' = 0 /\ ei' = 0
    /\ ep' = NoEntry
    /\ ResetLocals
    /\ total_new' = 0 /\ total_skipped' = 0
    /\ calls' = {}
    /\ last' = "none"

\* cmd_scrape up to the loops
ScrapeGroup(g) ==
    /\ pc = "idle"
    /\ IF g # "None" /\ g \notin DOMAIN FeedsFile
       THEN \* unknown group: sys.exit(1)
            Exit
       ELSE /\ cmd' = "scrape" /\ last' = "none"
            /\ work' = IF g # "None" THEN <<FeedsFile[g]>>
                       ELSE [i \in 1..Len(GroupOrder) |-> FeedsFile[GroupOrder[i]]]
            /\ Enter(Position("parse", 1, 1, 0))
            /\ episodes' = 0
            /\ total_new' = 0 /\ total_skipped' = 0
            /\ calls' = {} /\ ResetLocals
    /\ UNCHANGED <<store, now, files, op>>
    /\ UNCHANGED notIngest

StartScrape == \E g \in {"None", "g1", "g2", "gX"} : ScrapeGroup(g)

\* scrape --group g2, the group of the one feed A
StartScrapeOneFeed == ScrapeGroup("g2")

\* cmd_adhoc up to the loop
StartAdhoc ==
    /\ pc = "idle"
    /\ \E f \in FeedNames : work' = << <<f>> >>
    /\ cmd' = "adhoc" /\ last' = "none"
    /\ Enter(Position("parse", 1, 1, 0))
    /\ episodes' = 0
    /\ total_new' = 0 /\ total_skipped' = 0
    /\ calls' = {} /\ ResetLocals
    /\ UNCHANGED <<store, now, files, op>>
    /\ UNCHANGED notIngest

\* parse_feed for the current feed, and the handler around it
ParseFeed ==
    /\ pc = "parse"
    /\ \/ \* parse_feed raises: scrape logs it and continues, adhoc does sys.exit(1)
          IF cmd = "adhoc"
          THEN Exit
          ELSE /\ Enter(OnParseError)
               /\ last' = "parse_error"
               /\ episodes' = 0
               /\ UNCHANGED <<cmd, work, transcript, transcript_source, audio_path,
                              written, total_new, total_skipped, calls>>
       \/ \E n \in 0..MaxEpisodes :
          /\ episodes' = n
          /\ last' = "parsed"
          /\ IF n = 0 THEN Enter(NextFeed) ELSE Enter(Position("episode", gi, fi, 1))
          /\ UNCHANGED <<cmd, work, transcript, transcript_source, audio_path,
                         written, total_new, total_skipped, calls>>
    /\ UNCHANGED <<store, now, files, op>>
    /\ UNCHANGED notIngest

\* top of the episode loop: the dedup check
EpisodeBegin ==
    /\ pc = "episode"
    /\ IF EpisodeExists(store, ep.id)
       THEN /\ total_skipped' = IF cmd = "scrape" THEN total_skipped + 1 ELSE total_skipped
            /\ Leave("skipped", NextEpisode)
       ELSE /\ last' = "new"
            /\ pc' = "fetch"
            /\ ResetLocals
            /\ UNCHANGED <<gi, fi, ei, ep, total_skipped>>
    /\ calls' = {}
    /\ UNCHANGED <<store, now, files, op, cmd, work, episodes, total_new>>
    /\ UNCHANGED notIngest

\* strategy 1, and the choice of what follows it
FetchTranscript ==
    /\ pc = "fetch"
    /\ \E r \in (IF ep.transcript_url # "None" THEN FetchResults ELSE {None}) :
        LET to == AfterStrategy1(r, ep) IN
        IF to = "skip"
        THEN Leave("no_transcript", NextEpisode)
        ELSE /\ transcript' = r
             /\ transcript_source' = IF Truthy(r) THEN "podcast2.0" ELSE "None"
             /\ pc' = to
             /\ UNCHANGED <<gi, fi, ei, ep, last, audio_path, written>>
    /\ calls' = IF ep.transcript_url # "None" THEN calls \cup {"fetch"} ELSE calls
    /\ UNCHANGED <<store, now, files, op, cmd, work, episodes, total_new, total_skipped>>
    /\ UNCHANGED notIngest

\* download_audio up to the open of the cache file
DownloadAudio ==
    /\ pc = "download"
    /\ calls' = calls \cup {"download"}
    /\ LET local_path == EpisodeCachePath(ep.audio_url) IN
       IF CacheHit(files[local_path])
       THEN \* cache hit
            /\ audio_path' = local_path
            /\ pc' = "transcribe"
            /\ UNCHANGED <<files, written, gi, fi, ei, ep, last, transcript,
                           transcript_source>>
       ELSE \/ \* requests.get or raise_for_status raises
               /\ Leave("raised", OnTranscriptionError)
               /\ UNCHANGED files
            \/ \* the response arrives; open(local_path, "wb")
               /\ files' = [files EXCEPT ![local_path] = FileOf(0)]
               /\ written' = 0
               /\ pc' = "stream"
               /\ UNCHANGED <<audio_path, gi, fi, ei, ep, last, transcript,
                              transcript_source>>
    /\ UNCHANGED <<store, now, op, cmd, work, episodes, total_new, total_skipped>>
    /\ UNCHANGED notIngest

\* download_audio: one turn of the chunk loop, or its end
StreamChunk ==
    /\ pc = "stream"
    /\ LET local_path == EpisodeCachePath(ep.audio_url) IN
       \/ \* the next chunk arrives and is written
          /\ written < AudioChunks
          /\ files' = [files EXCEPT ![local_path] = FileOf(written + 1)]
          /\ written' = written + 1
          /\ UNCHANGED <<pc, gi, fi, ei, ep, last, audio_path, transcript,
                         transcript_source>>
       \/ \* iter_content raises: the transport failed
          /\ written < AudioChunks
          /\ Leave("raised", OnTranscriptionError)
          /\ UNCHANGED files
       \/ \* the body is complete: the file is closed and its path returned
          /\ written = AudioChunks
          /\ audio_path' = local_path
          /\ pc' = "transcribe"
          /\ UNCHANGED <<files, written, gi, fi, ei, ep, last, transcript,
                         transcript_source>>
    /\ UNCHANGED <<store, now, op, cmd, work, episodes, total_new, total_skipped, calls>>
    /\ UNCHANGED notIngest

\* transcribe_audio, and the check that follows strategy 2
TranscribeAudio ==
    /\ pc = "transcribe"
    /\ calls' = calls \cup {"transcribe"}
    /\ \/ \* the transcriber raises
          Leave("raised", OnTranscriptionError)
       \/ \E r \in TranscribeResults :
          IF Skips(r)
          THEN Leave("no_transcript", NextEpisode)
          ELSE /\ transcript' = r
               /\ transcript_source' = "whisper"
               /\ pc' = "store"
               /\ UNCHANGED <<gi, fi, ei, ep, last, audio_path, written>>
    /\ UNCHANGED <<store, now, files, op, cmd, work, episodes, total_new, total_skipped>>
    /\ UNCHANGED notIngest

\* db.store_episode(...) and the count of new episodes; the clock it reads
\* stands one tick after the one the write before it read
StoreNew ==
    /\ pc = "store"
    /\ \E t \in {IF now < MaxClock THEN now + 1 ELSE now} :
        /\ store' = StoreEpisode(store,
                [id |-> ep.id, feed_name |-> CurrentFeed, feed_url |-> FeedUrlOf(CurrentFeed),
                 title |-> ep.title, published_at |-> ep.published_at,
                 audio_url |-> ep.audio_url, audio_path |-> audio_path,
                 transcript |-> transcript, transcript_source |-> transcript_source], t)
        /\ now' = t
    /\ total_new' = total_new + 1
    /\ Leave("stored", NextEpisode)
    /\ UNCHANGED <<files, op, cmd, work, episodes, total_skipped, calls>>
    /\ UNCHANGED notIngest

\* conn.close() and the summary
Finish ==
    /\ pc = "done"
    /\ Exit
    /\ UNCHANGED <<store, now, files, op>>
    /\ UNCHANGED notIngest

\* a worker of the two-command runs, before it starts
NoWorker == [pc |-> "idle", transcript |-> None, transcript_source |-> "None",
             audio_path |-> "None", written |-> 0, t |-> 0]

\* a cache file with its chunk positions that hold data
NoCacheFile == [present |-> FALSE, data |-> {}]

\* no two commands run at once
InitRaceIdle ==
    /\ wk = [w \in {1, 2} |-> NoWorker]
    /\ wep = NoEntry
    /\ wfile = NoCacheFile
    /\ wlog = <<>>

\* no query was made
NoQuery == [fn |-> "none"]

\* no feed entry is being normalized
NoRawEntry == [id |-> "Missing"]
NoEpisode == [id |-> "None"]

InitParseIdle ==
    /\ raw = NoRawEntry
    /\ norm = NoEpisode
    /\ fpc = "idle"
    /\ fentries = <<>>
    /\ fbozo = FALSE
    /\ fmax = 0
    /\ fepisodes = <<>>

\* no export is running
InitExportIdle ==
    /\ xpc = "idle"
    /\ xargs = [lookback_hours |-> 0, group_feeds |-> <<>>, max_episodes_total |-> 0,
                max_episodes_per_feed |-> 0, excerpt_chars |-> 0]
    /\ xepisodes = <<>>
    /\ xi = 0
    /\ selected = <<>>
    /\ per_feed_counts = [f \in FeedNames |-> 0]
    /\ xresult = [episodeCount |-> 0, feedCount |-> 0]
    /\ query = NoQuery

\* no excerpt is being taken
InitExcerptIdle ==
    /\ etext = <<>>
    /\ emax = 0
    /\ eresult = None

Init ==
    /\ store = <<>>
    /\ now = 0
    /\ files = [p \in CachePaths |-> NoFile]
    /\ op = [kind |-> "none"]
    /\ InitRun
    /\ InitExportIdle
    /\ InitExcerptIdle
    /\ InitRaceIdle
    /\ InitParseIdle

Next ==
    \/ StartScrape \/ StartAdhoc \/ ParseFeed \/ EpisodeBegin \/ FetchTranscript
    \/ DownloadAudio \/ StreamChunk \/ TranscribeAudio \/ StoreNew \/ Finish

Spec == Init /\ [][Next]_vars

\* a command that has reached its store_episode call completes it: the write
\* is local and nothing the command waits for can hold it back
NextOneFeed ==
    \/ StartScrapeOneFeed \/ ParseFeed \/ EpisodeBegin \/ FetchTranscript
    \/ DownloadAudio \/ StreamChunk \/ TranscribeAudio \/ StoreNew \/ Finish

\* runs of scrape over the one feed of group g2, again and again
SpecRetry == Init /\ [][NextOneFeed]_vars /\ WF_vars(StoreNew)

\* --------------------------------------------- direct use of the store API

\* the metadata a caller may pass: two sets that differ in every field, one
\* with a date and an audio url and one without
Metas ==
    {m \in [feed_name : FeedNames, title : Titles, published_at : Dates,
            audio_url : {"None", "u1"}] :
        /\ (m.feed_name = "A") <=> (m.title = "T1")
        /\ (m.title = "T1") <=> (m.published_at # "None")
        /\ (m.published_at = "None") <=> (m.audio_url = "None")}

\* whether the metadata of call a differs from row in every metadata field
AllMetaDiffer(row, a) ==
    /\ a.feed_name # row.feed_name
    /\ a.feed_url # row.feed_url
    /\ a.title # row.title
    /\ a.published_at # row.published_at
    /\ a.audio_url # row.audio_url
    /\ a.transcript # row.transcript

\* the (audio_path, transcript, transcript_source) a caller may pass
Payloads ==
    { [audio_path |-> "None", transcript |-> <<"a", SP, "b">>, transcript_source |-> "podcast2.0"],
      [audio_path |-> "p1", transcript |-> <<"a">>, transcript_source |-> "whisper"],
      [audio_path |-> "p1", transcript |-> <<>>, transcript_source |-> "whisper"],
      [audio_path |-> "p1", transcript |-> <<NL, "a", SP, SP, "b", TAB, "c", CR>>,
       transcript_source |-> "whisper"],
      [audio_path |-> "None", transcript |-> None, transcript_source |-> "None"] }

Args(episode_id, m, p) ==
    [id |-> episode_id, feed_name |-> m.feed_name, feed_url |-> FeedUrlOf(m.feed_name),
     title |-> m.title, published_at |-> m.published_at, audio_url |-> m.audio_url,
     audio_path |-> p.audio_path, transcript |-> p.transcript,
     transcript_source |-> p.transcript_source]

NoOp == [kind |-> "none"]

\* the times a clock read may return: the last one read or a later one
ClockReads == {t \in {now, now + 1} : t <= MaxClock}

InitStore ==
    /\ store = <<>>
    /\ now = 0
    /\ files = [p \in CachePaths |-> NoFile]
    /\ op = NoOp
    /\ InitRun
    /\ InitExportIdle
    /\ InitExcerptIdle
    /\ InitRaceIdle
    /\ InitParseIdle

\* a caller runs store_episode(conn, ...)
Upsert ==
    \E episode_id \in Ids, m \in Metas, p \in Payloads, t \in ClockReads :
        LET a == Args(episode_id, m, p) IN
        /\ store' = StoreEpisode(store, a, t)
        /\ now' = t
        /\ op' = [kind |-> "upsert", id |-> a.id, transcript |-> a.transcript,
                  args |-> a,
                  again |-> op.kind = "upsert" /\ op.args = a,
                  existed |-> \E i \in 1..Len(store) : store[i].id = a.id,
                  rows |-> Len(store),
                  differ |-> \E i \in 1..Len(store) :
                                store[i].id = a.id /\ AllMetaDiffer(store[i], a)]
        /\ UNCHANGED <<files, runVars, notIngest>>

\* a caller runs episode_exists(conn, id)
Lookup ==
    \E episode_id \in Ids :
        /\ op' = [kind |-> "exists", id |-> episode_id,
                  result |-> EpisodeExists(store, episode_id)]
        /\ UNCHANGED <<store, now, files, runVars, notIngest>>

NextStore == Upsert \/ Lookup

SpecStore == InitStore /\ [][NextStore]_vars

\* ------------------------------------------------------- bounded JSON export

RowIds == <<"i1", "i2", "i3", "i4", "i5">>

\* the transcripts of the rows exported: none, blank, or text
ExportTexts == {<<>>, <<SP>>, <<"a">>}

\* the time of the export, in hours, and the scraped_at of the rows exported:
\* 200 hours and 1 hour before it
ExportNow == 200
ExportTimes == {0, 199}

\* the lookback_hours passed: the last hour, the default week, everything
Lookbacks == {1, 168, 200}

\* a row without text outside the window is excluded like any other row: the
\* rows without text are recent ones
ExportKinds ==
    {k \in [feed_name : FeedNames, transcript : ExportTexts, scraped_at : ExportTimes] :
        Strip(k.transcript) = <<>> => k.scraped_at = 199}

\* the stores exported: rows of distinct ids, in insertion order
ExportRow(k, f, text, t) ==
    NewRow([id |-> RowIds[k], feed_name |-> f, feed_url |-> FeedUrlOf(f), title |-> "T1",
            published_at |-> "d1", audio_url |-> "None", audio_path |-> "None",
            transcript |-> text,
            transcript_source |-> IF text = <<>> THEN "None" ELSE "podcast2.0"], t)

\* the rows come back in the order of ORDER BY, whatever order they were
\* inserted in: one insertion order is drawn for each collection of rows
KindRank(k) ==
    (IF k.feed_name = "A" THEN 0 ELSE 6)
    + (IF k.transcript = <<>> THEN 0 ELSE IF k.transcript = <<SP>> THEN 2 ELSE 4)
    + (IF k.scraped_at = 0 THEN 0 ELSE 1)

ExportStores ==
    UNION {{[k \in 1..n |-> ExportRow(k, ks[k].feed_name, ks[k].transcript,
                                       ks[k].scraped_at)] :
              ks \in {c \in [1..n -> ExportKinds] :
                         \A i, j \in 1..n : i < j => KindRank(c[i]) <= KindRank(c[j])}} :
           n \in 0..MaxRows}

\* the orders in which a SELECT ... ORDER BY scraped_at DESC may return the rows
\* at the indexes q of rows: any order that is descending in scraped_at
DescendingOrders(rows, q) ==
    {o \in [1..Cardinality(q) -> q] :
        /\ \A i, j \in 1..Cardinality(q) : i # j => o[i] # o[j]
        /\ \A i, j \in 1..Cardinality(q) : i < j => rows[o[i]].scraped_at >= rows[o[j]].scraped_at}

\* mutant: the window excludes a row scraped exactly at the cutoff
FetchRecentAfter(rows, t, lookback_hours) ==
    LET cutoff == t - lookback_hours
        q0 == {i \in 1..Len(rows) : rows[i].scraped_at > cutoff}
    IN {[i \in 1..Cardinality(q0) |-> rows[o[i]]] : o \in DescendingOrders(rows, q0)}

\* db.fetch_recent without feed_name
FetchRecent(rows, t, lookback_hours) ==
    LET cutoff == t - lookback_hours
        q == {i \in 1..Len(rows) : rows[i].scraped_at >= cutoff}
    IN {[i \in 1..Cardinality(q) |-> rows[o[i]]] : o \in DescendingOrders(rows, q)}

\* db.fetch_recent with feed_name
FetchRecentOf(rows, feed_name, t, lookback_hours) ==
    LET cutoff == t - lookback_hours
        q0 == {i \in 1..Len(rows) :
                /\ rows[i].scraped_at >= cutoff /\ rows[i].feed_name = feed_name}
    IN {[i \in 1..Cardinality(q0) |-> rows[o[i]]] : o \in DescendingOrders(rows, q0)}

\* db.fetch_by_group
FetchByGroup(rows, feed_names, t, lookback_hours) ==
    LET cutoff == t - lookback_hours
        q == {i \in 1..Len(rows) :
                /\ rows[i].scraped_at >= cutoff
                /\ \E j \in 1..Len(feed_names) : rows[i].feed_name = feed_names[j]}
    IN {[i \in 1..Cardinality(q) |-> rows[o[i]]] : o \in DescendingOrders(rows, q)}

\* mutant: the cap lets one more episode of the feed through
PerFeedCapPassed(count, cap) == cap > 0 /\ count > cap

\* max_episodes_per_feed > 0 and per_feed_counts[feed_name] >= max_episodes_per_feed
PerFeedCapReached(count, cap) == cap > 0 /\ count >= cap

\* len(selected) >= max_episodes_total
TotalCapReached(n, cap) == n >= cap

\* mutant: a skipped episode ends the loop
SkipBreaks == "return"

\* continue: after a skipped episode the loop goes on with the next one
SkipContinues == "loop"

\* the arguments export_transcripts_json is called with
ExportArgs ==
    [lookback_hours : Lookbacks, group_feeds : {<<>>, <<"A">>},
     max_episodes_total : 0..MaxCap, max_episodes_per_feed : 0..MaxCap,
     excerpt_chars : {MaxBudget}]

InitExport ==
    /\ store \in ExportStores
    /\ now = ExportNow
    /\ files = [p \in CachePaths |-> NoFile]
    /\ op = NoOp
    /\ InitRun
    /\ InitExportIdle
    /\ InitExcerptIdle
    /\ InitRaceIdle
    /\ InitParseIdle

\* export_transcripts_json up to its loop: the fetch
ExportBegin ==
    /\ xpc = "idle"
    /\ \E a \in ExportArgs :
        /\ xargs' = a
        /\ xepisodes' \in IF a.group_feeds # <<>>
                          THEN FetchByGroup(store, a.group_feeds, now, a.lookback_hours)
                          ELSE FetchRecent(store, now, a.lookback_hours)
    /\ xi' = 1
    /\ selected' = <<>>
    /\ per_feed_counts' = [f \in FeedNames |-> 0]
    /\ xpc' = "loop"
    /\ UNCHANGED <<xresult, query, notExport>>

\* one turn of the loop over episodes, or its end
ExportStep ==
    /\ xpc = "loop"
    /\ IF xi > Len(xepisodes) \/ TotalCapReached(Len(selected), xargs.max_episodes_total)
       THEN \* the rows are exhausted, or break
            /\ xpc' = "return"
            /\ UNCHANGED <<xi, selected, per_feed_counts>>
       ELSE LET e == xepisodes[xi]
                text == IF e.transcript = None THEN <<>> ELSE e.transcript
            IN /\ xi' = xi + 1
               /\ IF Strip(text) = <<>>
                  THEN /\ xpc' = SkipContinues
                       /\ UNCHANGED <<selected, per_feed_counts>>
                  ELSE IF PerFeedCapReached(per_feed_counts[e.feed_name],
                                            xargs.max_episodes_per_feed)
                  THEN /\ xpc' = SkipContinues
                       /\ UNCHANGED <<selected, per_feed_counts>>
                  ELSE /\ xpc' = "loop"
                       /\ selected' = Append(selected,
                              [episodeId |-> e.id, feedName |-> e.feed_name,
                               wordCount |-> e.word_count,
                               transcriptExcerpt |->
                                   ExcerptTranscript(text, xargs.excerpt_chars)])
                       /\ per_feed_counts' =
                              [per_feed_counts EXCEPT ![e.feed_name] = @ + 1]
    /\ UNCHANGED <<xargs, xepisodes, xresult, query, notExport>>

\* the payload returned
ExportReturn ==
    /\ xpc = "return"
    /\ xresult' = [episodeCount |-> Len(selected),
                   feedCount |-> Cardinality({f \in FeedNames : per_feed_counts[f] > 0})]
    /\ xpc' = "returned"
    /\ UNCHANGED <<xargs, xepisodes, xi, selected, per_feed_counts, query, notExport>>

\* a caller runs db.fetch_recent(conn, lookback_hours, feed_name), where an
\* empty feed_name is no filter like None
QueryRecent ==
    /\ xpc = "idle"
    /\ \E h \in Lookbacks, f \in {"None", "", "B"} :
        \E r \in (IF f \in {"None", ""} THEN FetchRecent(store, now, h)
                  ELSE FetchRecentOf(store, f, now, h)) :
            query' = [fn |-> "fetch_recent", lookback_hours |-> h,
                  feeds |-> IF f \in {"None", ""} THEN FeedNames ELSE {f}, rows |-> r]
    /\ xpc' = "queried"
    /\ UNCHANGED <<xargs, xepisodes, xi, selected, per_feed_counts, xresult, notExport>>

\* a caller runs db.fetch_by_group(conn, feed_names, lookback_hours)
QueryByGroup ==
    /\ xpc = "idle"
    /\ \E h \in Lookbacks, fs \in {<<>>, <<"B">>, <<"A", "B">>} :
        \E r \in FetchByGroup(store, fs, now, h) :
            query' = [fn |-> "fetch_by_group", lookback_hours |-> h,
                  feeds |-> {fs[i] : i \in 1..Len(fs)}, rows |-> r]
    /\ xpc' = "queried"
    /\ UNCHANGED <<xargs, xepisodes, xi, selected, per_feed_counts, xresult, notExport>>

NextExport == ExportBegin \/ ExportStep \/ ExportReturn \/ QueryRecent \/ QueryByGroup

SpecExport == InitExport /\ [][NextExport]_vars

\* ------------------------------------------------------ excerpt of one text

Letters(n) == [i \in 1..n |-> "a"]

\* runs of whitespace of up to three characters
Gaps == UNION {[1..n -> Whitespace] : n \in 0..3}

\* the texts excerpted: letters, whitespace, letters
ExcerptTexts == {Letters(i) \o g \o Letters(j) : i \in 0..MaxFill, g \in Gaps, j \in 0..MaxFill}

InitExcerpt ==
    /\ store = <<>>
    /\ now = 0
    /\ files = [p \in CachePaths |-> NoFile]
    /\ op = NoOp
    /\ InitRun
    /\ InitRaceIdle
    /\ InitParseIdle
    /\ InitExportIdle
    /\ etext \in ExcerptTexts
    /\ emax \in 0..MaxBudget
    /\ eresult = None

\* a caller runs _excerpt_transcript(text, max_chars)
Excerpt ==
    /\ eresult = None
    /\ eresult' = ExcerptTranscript(etext, emax)
    /\ UNCHANGED <<etext, emax, notExcerpt>>

NextExcerpt == Excerpt

SpecExcerpt == InitExcerpt /\ [][NextExcerpt]_vars

\* ------------------------------------------- two commands at the same time

\* two scrape commands over the same feeds file run at once (two processes,
\* each with its own connection) and both reach the same entry of feed A
Workers == {1, 2}
RaceFeed == "A"

Complete(f) == f.present /\ f.data = 1..AudioChunks

\* the arguments worker w passes to db.store_episode
RaceArgs(w) ==
    [id |-> wep.id, feed_name |-> RaceFeed, feed_url |-> FeedUrlOf(RaceFeed),
     title |-> wep.title, published_at |-> wep.published_at,
     audio_url |-> wep.audio_url, audio_path |-> wk[w].audio_path,
     transcript |-> wk[w].transcript, transcript_source |-> wk[w].transcript_source]

InitRace ==
    /\ store = <<>>
    /\ now = 0
    /\ files = [p \in CachePaths |-> NoFile]
    /\ op = NoOp
    /\ InitRun
    /\ InitExportIdle
    /\ InitExcerptIdle
    /\ InitParseIdle
    /\ wk = [w \in Workers |-> [NoWorker EXCEPT !.pc = "episode"]]
    /\ wep \in Entries
    /\ wfile = NoCacheFile
    /\ wlog = <<>>

\* if db.episode_exists(conn, ep.id): continue
RaceExists ==
    \E w \in Workers :
        /\ wk[w].pc = "episode"
        /\ wk' = [wk EXCEPT ![w].pc =
                     IF EpisodeExists(store, wep.id) THEN "skipped" ELSE "fetch"]
        /\ UNCHANGED <<store, now, wep, wfile, wlog, notRace>>

\* strategy 1
RaceFetch ==
    \E w \in Workers :
        /\ wk[w].pc = "fetch"
        /\ \E r \in (IF wep.transcript_url # "None" THEN FetchResults ELSE {None}) :
            LET to == AfterStrategy1(r, wep) IN
            wk' = [wk EXCEPT ![w] =
                      IF to = "skip" THEN [@ EXCEPT !.pc = "no_transcript"]
                      ELSE [@ EXCEPT !.pc = to, !.transcript = r,
                                     !.transcript_source =
                                         IF Truthy(r) THEN "podcast2.0" ELSE "None"]]
        /\ UNCHANGED <<store, now, wep, wfile, wlog, notRace>>

\* download_audio: if os.path.exists(local_path): return local_path
RaceCacheLookup ==
    \E w \in Workers :
        /\ wk[w].pc = "download"
        /\ wk' = [wk EXCEPT ![w] =
                     IF CacheHit(wfile)
                     THEN [@ EXCEPT !.pc = "transcribe",
                                    !.audio_path = EpisodeCachePath(wep.audio_url)]
                     ELSE [@ EXCEPT !.pc = "open"]]
        /\ UNCHANGED <<store, now, wep, wfile, wlog, notRace>>

\* download_audio: requests.get, then open(local_path, "wb"), which creates
\* the file or truncates the one another writer holds open
RaceOpen ==
    \E w \in Workers :
        /\ wk[w].pc = "open"
        /\ \/ \* requests.get or raise_for_status raises
              /\ wk' = [wk EXCEPT ![w].pc = "raised"]
              /\ UNCHANGED wfile
           \/ /\ wfile' = [present |-> TRUE, data |-> {}]
              /\ wk' = [wk EXCEPT ![w].pc = "stream", ![w].written = 0]
        /\ UNCHANGED <<store, now, wep, wlog, notRace>>

\* download_audio: one turn of the chunk loop of worker w, which writes at the
\* offset of its own file object, or the end of the loop
RaceStream ==
    \E w \in Workers :
        /\ wk[w].pc = "stream"
        /\ \/ /\ wk[w].written < AudioChunks
              /\ wfile' = [wfile EXCEPT !.data = @ \cup {wk[w].written + 1}]
              /\ wk' = [wk EXCEPT ![w].written = @ + 1]
           \/ \* iter_content raises
              /\ wk[w].written < AudioChunks
              /\ wk' = [wk EXCEPT ![w].pc = "raised"]
              /\ UNCHANGED wfile
           \/ /\ wk[w].written = AudioChunks
              /\ wk' = [wk EXCEPT ![w].pc = "transcribe",
                                  ![w].audio_path = EpisodeCachePath(wep.audio_url)]
              /\ UNCHANGED wfile
        /\ UNCHANGED <<store, now, wep, wlog, notRace>>

\* transcribe_audio, and the check that follows strategy 2
RaceTranscribe ==
    \E w \in Workers :
        /\ wk[w].pc = "transcribe"
        /\ \/ wk' = [wk EXCEPT ![w].pc = "raised"]
           \/ \E r \in TranscribeResults :
                wk' = [wk EXCEPT ![w] =
                          IF Skips(r) THEN [@ EXCEPT !.pc = "no_transcript"]
                          ELSE [@ EXCEPT !.pc = "store", !.transcript = r,
                                         !.transcript_source = "whisper"]]
        /\ UNCHANGED <<store, now, wep, wfile, wlog, notRace>>

\* store_episode: word_count and now are computed before the statement runs
RaceClock ==
    \E w \in Workers, t \in ClockReads :
        /\ wk[w].pc = "store"
        /\ now' = t
        /\ wk' = [wk EXCEPT ![w].pc = "commit", ![w].t = t]
        /\ UNCHANGED <<store, wep, wfile, wlog, notRace>>

\* store_episode: conn.execute(INSERT ... ON CONFLICT ...) and conn.commit(),
\* one transaction of the database
RaceCommit ==
    \E w \in Workers :
        /\ wk[w].pc = "commit"
        /\ store' = StoreEpisode(store, RaceArgs(w), wk[w].t)
        /\ wlog' = Append(wlog, [w |-> w, args |-> RaceArgs(w), t |-> wk[w].t])
        /\ wk' = [wk EXCEPT ![w].pc = "stored"]
        /\ UNCHANGED <<now, wep, wfile, notRace>>

NextRace ==
    \/ RaceExists \/ RaceFetch \/ RaceCacheLookup \/ RaceOpen \/ RaceStream
    \/ RaceTranscribe \/ RaceClock \/ RaceCommit

SpecRace == InitRace /\ [][NextRace]_vars

\* ------------------------------------------- normalization of a feed entry
\* A url is a sequence of tokens: a host and path, an extension, and after a
\* "?" token the query string.  A key the entry does not carry reads as None.

\* the most enclosures, and the most links, an entry carries
MaxAttach == 2

AudioExts == {".mp3", ".m4a", ".ogg", ".wav"}

\* str.lower, token by token
LowerTok(c) == IF c = ".MP3" THEN ".mp3" ELSE IF c = "H" THEN "h" ELSE c

Lower(u) == [i \in 1..Len(u) |-> LowerTok(u[i])]

\* href.endswith((".mp3", ".m4a", ".ogg", ".wav")): the text's last token
EndsWithAudioExt(u) == Len(u) > 0 /\ u[Len(u)] \in AudioExts

\* "audio" in type
HasAudio(type) == type \in {"audio/mpeg", "audio/x-wav"}

\* a or b
OrElse(a, b) == IF Truthy(a) THEN a ELSE b

\* d.get(key, default) of a key that reads v
GetOr(v, default) == IF v = None THEN default ELSE v

LeastOf(S) == CHOOSE i \in S : \A j \in S : i <= j

EnclosureKinds ==
    { [href |-> <<"h", ".mp3">>, url |-> None, type |-> ""],
      [href |-> <<"h", ".mp3", "?", "k">>, url |-> None, type |-> ""],
      [href |-> <<"h", ".bin">>, url |-> None, type |-> "audio/mpeg"],
      [href |-> <<"h", ".jpg">>, url |-> None, type |-> "image/jpeg"],
      [href |-> None, url |-> <<"H", ".MP3">>, type |-> ""],
      [href |-> None, url |-> None, type |-> "audio/mpeg"] }

LinkKinds ==
    { [href |-> <<"l", ".ogg">>, type |-> "", rel |-> "alternate"],
      [href |-> <<"l", ".wav", "?", "k">>, type |-> "", rel |-> "alternate"],
      [href |-> <<"l", ".bin">>, type |-> "audio/x-wav", rel |-> "enclosure"],
      [href |-> <<"l", ".vtt">>, type |-> "text/vtt", rel |-> "transcript"],
      [href |-> None, type |-> "audio/mpeg", rel |-> "alternate"] }

SeqsUpTo(S, n) == UNION {[1..k -> S] : k \in 0..n}

\* the entries feedparser may yield: the guid, the title and the dates may
\* each be missing, and the title may be an empty string
RawEntries ==
    [id : {None, <<"g1">>},
     title : {None, <<>>, <<"T">>},
     published : {None, <<"d1">>},
     updated : {None, <<"d2">>},
     enclosures : SeqsUpTo(EnclosureKinds, MaxAttach),
     links : SeqsUpTo(LinkKinds, MaxAttach)]

GetEntryDate(entry) ==
    IF Truthy(entry.published) THEN entry.published
    ELSE IF Truthy(entry.updated) THEN entry.updated
    ELSE None

GetAudioUrl(entry) ==
    LET encs == entry.enclosures
        links == entry.links
        EncHref(e) == OrElse(e.href, e.url)
        EncType(e) == e.type
        LinkHref(l) == GetOr(l.href, <<>>)
        em == {i \in 1..Len(encs) :
                 /\ Truthy(EncHref(encs[i]))
                 /\ \/ HasAudio(EncType(encs[i]))
                    \/ EndsWithAudioExt(Lower(EncHref(encs[i])))}
        lm == {i \in 1..Len(links) :
                 \/ HasAudio(links[i].type)
                 \/ EndsWithAudioExt(Lower(LinkHref(links[i])))}
    IN  IF em # {} THEN EncHref(encs[LeastOf(em)])
        ELSE IF lm # {} THEN LinkHref(links[LeastOf(lm)])
        ELSE None

GetTranscriptUrl(entry) ==
    LET links == entry.links
        tm == {i \in 1..Len(links) : links[i].rel = "transcript"}
    IN  IF tm # {} THEN links[LeastOf(tm)].href ELSE None

\* sha256(feed_url + ":" + title), kept as the text it digests
GetEpisodeId(entry, feed_url) ==
    IF Truthy(entry.id) THEN <<"guid">> \o entry.id
    ELSE <<"sha256", feed_url, ":">> \o GetOr(entry.title, <<"unknown">>)

\* the Episode parse_feed builds of one entry
EpisodeOf(entry, feed_name, feed_url) ==
    [id |-> GetEpisodeId(entry, feed_url),
     feed_name |-> feed_name,
     feed_url |-> feed_url,
     title |-> GetOr(entry.title, <<"Untitled">>),
     published_at |-> GetEntryDate(entry),
     audio_url |-> GetAudioUrl(entry),
     transcript_url |-> GetTranscriptUrl(entry)]

InitParse ==
    /\ store = <<>>
    /\ now = 0
    /\ files = [p \in CachePaths |-> NoFile]
    /\ op = NoOp
    /\ InitRun
    /\ InitExportIdle
    /\ InitExcerptIdle
    /\ InitRaceIdle
    /\ raw \in RawEntries
    /\ norm = NoEpisode
    /\ fpc = "idle" /\ fentries = <<>> /\ fbozo = FALSE /\ fmax = 0 /\ fepisodes = <<>>

\* parse_feed turns the entry into an Episode
ParseEntry ==
    /\ norm = NoEpisode
    /\ \E f \in FeedNames : norm' = EpisodeOf(raw, f, FeedUrlOf(f))
    /\ UNCHANGED <<raw, notParse>>

NextParse == ParseEntry

SpecParse == InitParse /\ [][NextParse]_vars

\* ------------------------------------------------- parse_feed on a feed

\* the most entries a feed document holds
MaxFeed == 3

EntryIds == <<"e1", "e2", "e3", "e4", "e5">>

\* published_parsed and updated_parsed are struct_time tuples in UTC, here of
\* one field, and <<>> when the entry has no such date
PublishedTimes == {<<>>, <<1>>, <<2>>}
UpdatedTimes == {<<>>, <<3>>}

\* the zone's standard offset from UTC
UtcOffset == 1

\* time.mktime reads the tuple as local standard time (tm_isdst = 0)
Mktime(st) == st[1] - UtcOffset

GetEntryTimestamp(entry) ==
    IF entry.published_parsed # <<>> THEN Mktime(entry.published_parsed)
    ELSE IF entry.updated_parsed # <<>> THEN Mktime(entry.updated_parsed)
    ELSE 0

\* the k-th entry of a feed document, with the dates given
FeedEntry(k, pp, up) ==
    [id |-> <<EntryIds[k]>>, title |-> <<"T">>,
     published |-> IF pp = <<>> THEN None ELSE <<"d1">>,
     updated |-> IF up = <<>> THEN None ELSE <<"d2">>,
     published_parsed |-> pp, updated_parsed |-> up,
     enclosures |-> <<>>, links |-> <<>>]

FeedDocuments ==
    UNION {{[k \in 1..n |-> FeedEntry(k, pp[k], up[k])] :
              pp \in [1..n -> PublishedTimes], up \in [1..n -> UpdatedTimes]} :
           n \in 0..MaxFeed}

\* mutant: an ascending sort, reversed: equal timestamps come out in reverse
TiesReversed(sorted, e) ==
    LET k == Cardinality({i \in 1..Len(sorted) :
                            GetEntryTimestamp(sorted[i]) > GetEntryTimestamp(e)})
    IN  SubSeq(sorted, 1, k) \o <<e>> \o SubSeq(sorted, k + 1, Len(sorted))

\* sorted(..., reverse=True) is stable: an entry goes behind every entry
\* before it in the document whose key is not smaller
InsertNewestFirst(sorted, e) ==
    LET k == Cardinality({i \in 1..Len(sorted) :
                            GetEntryTimestamp(sorted[i]) >= GetEntryTimestamp(e)})
    IN  SubSeq(sorted, 1, k) \o <<e>> \o SubSeq(sorted, k + 1, Len(sorted))

RECURSIVE SortedNewestFirst(_)
SortedNewestFirst(es) ==
    IF es = <<>> THEN <<>>
    ELSE InsertNewestFirst(SortedNewestFirst(SubSeq(es, 1, Len(es) - 1)), es[Len(es)])

\* seq[:n] for n >= 0
Take(seq, n) == SubSeq(seq, 1, IF n < Len(seq) THEN n ELSE Len(seq))

InitFeed ==
    /\ store = <<>>
    /\ now = 0
    /\ files = [p \in CachePaths |-> NoFile]
    /\ op = NoOp
    /\ InitRun
    /\ InitExportIdle
    /\ InitExcerptIdle
    /\ InitRaceIdle
    /\ raw = NoRawEntry
    /\ norm = NoEpisode
    /\ fpc = "feed"
    /\ fentries \in FeedDocuments
    /\ fbozo \in BOOLEAN
    /\ fmax \in 0..MaxEpisodes
    /\ fepisodes = <<>>

\* parse_feed raises on a document that is malformed and has no entries
ParseFeedRaises ==
    /\ fpc = "feed"
    /\ fbozo /\ fentries = <<>>
    /\ fpc' = "raised"
    /\ UNCHANGED <<fentries, fbozo, fmax, fepisodes, notFeed>>

\* parse_feed sorts the entries, cuts the list and makes the Episodes
ParseFeedReturns ==
    /\ fpc = "feed"
    /\ ~(fbozo /\ fentries = <<>>)
    /\ \E f \in FeedNames :
        LET top == Take(SortedNewestFirst(fentries), fmax)
        IN  fepisodes' = [i \in 1..Len(top) |-> EpisodeOf(top[i], f, FeedUrlOf(f))]
    /\ fpc' = "parsed"
    /\ UNCHANGED <<fentries, fbozo, fmax, notFeed>>

NextFeedParse == ParseFeedRaises \/ ParseFeedReturns

SpecFeed == InitFeed /\ [][NextFeedParse]_vars

\* ------------------------------------------------------------------ claims

\* C1: after any sequence of store_episode calls the store holds exactly one
\* row per distinct id: no two rows of the table carry the same id, and every
\* id that was upserted is present.
C1_OneRowPerId ==
    /\ \A i, j \in 1..Len(store) : store[i].id = store[j].id => i = j
    /\ op.kind = "upsert" =>
          /\ Cardinality({i \in 1..Len(store) : store[i].id = op.id}) = 1
          /\ Len(store) = IF op.existed THEN op.rows ELSE op.rows + 1

\* C1 witness: an upsert has just hit an id that was already stored, and the
\* store holds rows of two different ids
C1_Witness ==
    /\ op.kind = "upsert" /\ op.existed
    /\ Len(store) = 2

\* C2: an upsert for an existing id leaves feed_name, feed_url, title,
\* published_at and audio_url of the stored row as they were; only transcript,
\* transcript_source, audio_path, scraped_at and word_count may change.
C2_MetadataKept ==
    [][\A i \in 1..Len(store) :
          /\ i <= Len(store')
          /\ store'[i].id = store[i].id
          /\ store'[i].feed_name = store[i].feed_name
          /\ store'[i].feed_url = store[i].feed_url
          /\ store'[i].title = store[i].title
          /\ store'[i].published_at = store[i].published_at
          /\ store'[i].audio_url = store[i].audio_url]_vars

\* C2 witness: the last upsert hit an existing row and passed metadata that
\* differs from the stored row in every metadata field, and a new transcript
C2_Witness ==
    /\ op.kind = "upsert" /\ op.existed /\ op.differ
    /\ RowOf(store, op.id).transcript = op.transcript

\* the entry the loop body works on has both a transcript url and an audio url
BothUrls == ep.transcript_url # "None" /\ ep.audio_url # "None"

\* the stages of strategy 2
AudioStages == {"download", "stream", "transcribe"}

\* C3: in every store state the ingestion loops reach, each row has its
\* transcript_source set exactly when its transcript is non-empty, and no row
\* lacks a transcript (an episode without text is never written).
C3_SourceIffTranscript ==
    \A i \in 1..Len(store) :
        /\ (store[i].transcript_source # "None") <=>
              (store[i].transcript # None /\ store[i].transcript # <<>>)
        /\ store[i].transcript # None /\ store[i].transcript # <<>>
        /\ store[i].transcript_source \in {"podcast2.0", "whisper"}

\* C3 witness: both strategies ran for an entry and produced no text, the entry
\* was left without a write, and the store holds a row of another entry
C3_Witness ==
    /\ last = "no_transcript"
    /\ calls = {"fetch", "download", "transcribe"}
    /\ Len(store) = 1

\* C4: for an entry with both urls, a transcript fetch that returns text leads
\* straight to the store write, with no download or transcription and the
\* cache untouched, and the row written has transcript_source podcast2.0 and
\* no audio_path.
C4_PublisherTranscriptWins ==
    [][/\ (pc = "fetch" /\ BothUrls /\ transcript' # None /\ transcript' # <<>>) =>
            /\ pc' = "store"
            /\ calls' = {"fetch"}
            /\ files' = files
       /\ (pc = "store" /\ BothUrls /\ calls = {"fetch"}) =>
            /\ EpisodeExists(store', ep.id)
            /\ RowOf(store', ep.id).transcript_source = "podcast2.0"
            /\ RowOf(store', ep.id).audio_path = "None"
            /\ RowOf(store', ep.id).transcript = transcript
            /\ files' = files]_vars

\* C4 witness: an entry with an audio url was just stored from its publisher
\* transcript alone, and nothing was ever downloaded
C4_Witness ==
    /\ last = "stored"
    /\ calls = {"fetch"}
    /\ store[Len(store)].audio_url # "None"
    /\ store[Len(store)].transcript_source = "podcast2.0"
    /\ store[Len(store)].audio_path = "None"
    /\ \A p \in CachePaths : ~files[p].present

\* C5: for an entry with both urls a transcript fetch that yields no text
\* (None on a network failure or non-2xx status) never ends the entry: the
\* loop goes on to the download; and an entry whose transcription produced
\* the text is stored with transcript_source whisper and its cache path.
C5_FetchFailureFallsBack ==
    [][/\ (pc = "fetch" /\ BothUrls) =>
            \/ pc' = "store" /\ transcript' # None /\ transcript' # <<>>
            \/ pc' = "download" /\ transcript' \in {None, <<>>} /\ store' = store
       /\ (pc = "store" /\ "transcribe" \in calls) =>
            /\ EpisodeExists(store', ep.id)
            /\ RowOf(store', ep.id).transcript_source = "whisper"
            /\ RowOf(store', ep.id).audio_path = EpisodeCachePath(ep.audio_url)
            /\ RowOf(store', ep.id).transcript = transcript]_vars

\* C5 witness: the transcript fetch of an entry was tried, the audio was
\* downloaded and transcribed, and the entry was stored as whisper
C5_Witness ==
    /\ last = "stored"
    /\ calls = {"fetch", "download", "transcribe"}
    /\ store[Len(store)].transcript_source = "whisper"
    /\ store[Len(store)].audio_path # "None"

\* C6: when download or transcription raises, the step writes nothing to the
\* store and counts nothing as new, and the loops go on exactly where a
\* success would have: next entry of the feed, else next feed, else next
\* group; and the run reaches its summary only after the last entry of the
\* last feed of the last group.
C6_FailureAbandonsEntryOnly ==
    /\ [][(pc \in AudioStages /\ last' = "raised") =>
            /\ store' = store
            /\ total_new' = total_new
            /\ IF ei < episodes
               THEN pc' = "episode" /\ ei' = ei + 1 /\ fi' = fi /\ gi' = gi
               ELSE IF fi < Len(work[gi])
               THEN pc' = "parse" /\ fi' = fi + 1 /\ gi' = gi
               ELSE IF gi < Len(work)
               THEN pc' = "parse" /\ fi' = 1 /\ gi' = gi + 1
               ELSE pc' = "done"]_vars
    /\ [](pc = "done" => gi = Len(work) /\ fi = Len(work[gi]) /\ ei = episodes)

\* C6 witness: the first entry of a feed raised in strategy 2 and the scrape
\* loop stands at the second entry of that feed, with nothing stored
C6_Witness ==
    /\ cmd = "scrape"
    /\ last = "raised"
    /\ pc = "episode" /\ ei = 2
    /\ store = <<>>

\* C7 (as claimed): a download that fails, before the first chunk or between
\* chunks, leaves no file at the cache path of its url.
C7_NoFileAfterFailedDownload ==
    [][(pc \in {"download", "stream"} /\ last' = "raised") =>
            ~files'[EpisodeCachePath(ep.audio_url)].present]_vars

\* C10: in a scrape run an entry whose id is in the store when the loop
\* reaches it is counted as skipped and causes no fetch, download,
\* transcription or write; any other entry is not counted as skipped and goes
\* to strategy 1; the store changes only by the write of an entry that has a
\* transcript, and each such write is counted as new.
C10_SkipStoredCountNew ==
    [][/\ (pc = "episode" /\ cmd = "scrape") =>
            IF \E i \in 1..Len(store) : store[i].id = ep.id
            THEN /\ total_skipped' = total_skipped + 1
                 /\ total_new' = total_new
                 /\ store' = store /\ files' = files
                 /\ calls' = {}
                 /\ pc' \in {"episode", "parse", "done"}
            ELSE /\ total_skipped' = total_skipped
                 /\ total_new' = total_new
                 /\ pc' = "fetch"
       /\ (pc = "store" /\ cmd = "scrape") =>
            /\ transcript # None /\ transcript # <<>>
            /\ Len(store') = Len(store) + 1
            /\ store'[Len(store')].id = ep.id
            /\ store'[Len(store')].transcript = transcript
            /\ total_new' = total_new + 1
            /\ total_skipped' = total_skipped
       /\ (pc \in {"fetch", "transcribe"} /\ transcript' # None /\ transcript' # <<>>) =>
            pc' = "store"
       /\ (pc \notin {"idle", "store", "done"}) => total_new' = total_new
       /\ (pc \notin {"idle", "episode", "done"}) => total_skipped' = total_skipped
       /\ (pc # "store") => store' = store]_vars

\* C10 witness: a scrape run over three entries ends with 2 new and 1 skipped
C10_Witness ==
    /\ cmd = "scrape" /\ pc = "done"
    /\ total_new = 2 /\ total_skipped = 1
    /\ last = "skipped"

\* the episodes of feed f among the selected
SelectedOf(f) == {i \in 1..Len(selected) : selected[i].feedName = f}

\* C8 (as claimed): for every max_episodes_total and max_episodes_per_feed,
\* 0 included, the export selects at most max_episodes_per_feed episodes of
\* any one feed and at most max_episodes_total in all.
C8_CapsIncludingZero ==
    /\ Len(selected) <= xargs.max_episodes_total
    /\ \A f \in FeedNames : Cardinality(SelectedOf(f)) <= xargs.max_episodes_per_feed

\* C8 (amended): the export never selects more than max_episodes_total
\* episodes, 0 included, and when max_episodes_per_feed is positive it selects
\* at most that many of any one feed; the running per-feed counters equal the
\* numbers selected.
C8_Caps ==
    /\ Len(selected) <= xargs.max_episodes_total
    /\ \A f \in FeedNames :
        /\ per_feed_counts[f] = Cardinality(SelectedOf(f))
        /\ xargs.max_episodes_per_feed > 0 =>
              Cardinality(SelectedOf(f)) <= xargs.max_episodes_per_feed

\* rows of feed f with a transcript that is not blank, among those fetched
Eligible(f) ==
    {i \in 1..Len(xepisodes) :
        xepisodes[i].feed_name = f /\ Strip(xepisodes[i].transcript) # <<>>}

\* C8 witness: the export returned with both caps binding: feed A had more
\* eligible rows than the per-feed cap let through, and the total cap was met
\* while an eligible row was left
C8_Witness ==
    /\ xpc = "returned"
    /\ xargs.max_episodes_per_feed = 1
    /\ Cardinality(Eligible("A")) >= 2
    /\ Cardinality(SelectedOf("A")) = 1
    /\ Len(selected) = xargs.max_episodes_total
    /\ Cardinality(Eligible("A") \cup Eligible("B")) = 3

\* C9 (as claimed): for a positive max_chars the excerpt is at most max_chars
\* plus the two elision markers long, and a text whose normalized form fits in
\* max_chars is returned normalized and whole.
C9_ExcerptBounded ==
    (eresult # None /\ emax > 0) =>
        /\ Len(eresult) <= emax + 2 * Len(ElisionSep)
        /\ Len(NormalizeExcerptText(etext)) <= emax => eresult = NormalizeExcerptText(etext)

\* the fields of a row that store_episode writes on every call but the time
Written(r) ==
    [transcript |-> r.transcript, transcript_source |-> r.transcript_source,
     audio_path |-> r.audio_path]

\* C11: when two commands work on the same new entry at once, in every
\* interleaving the store never holds more than one row of its id, and once a
\* write is committed the row's transcript, transcript_source and audio_path
\* are those of the write committed last, all three from that one write, its
\* word_count is the token count of that write's transcript and its
\* scraped_at the time that write read.
C11_LastCommitWins ==
    /\ Len(store) <= 1
    /\ Len(store) = IF wlog = <<>> THEN 0 ELSE 1
    /\ wlog # <<>> =>
          LET w2 == wlog[Len(wlog)] IN
          /\ store[1].id = wep.id
          /\ Written(store[1]) = Written(w2.args)
          /\ store[1].word_count = SplitCount(w2.args.transcript)
          /\ store[1].scraped_at = w2.t

\* C11 witness: both workers saw the entry absent, both committed, the first
\* with the publisher's transcript and the second with a transcription
C11_Witness ==
    /\ Len(wlog) = 2
    /\ wlog[1].w # wlog[2].w
    /\ wlog[1].args.transcript_source = "podcast2.0"
    /\ wlog[2].args.transcript_source = "whisper"
    /\ wlog[1].args.transcript # wlog[2].args.transcript
    /\ \A w \in Workers : wk[w].pc = "stored"

\* C12 (as claimed): when two callers run download_audio for one url at once,
\* a caller is returned the cache path only when the file there is a complete
\* download that no other caller is still writing, and once both callers have
\* returned the file at the cache path is complete.
C12_NoIncompleteCacheFile ==
    /\ [][\A w \in Workers :
            (wk[w].pc \in {"download", "stream"} /\ wk'[w].pc = "transcribe") =>
                /\ Complete(wfile')
                /\ \A v \in Workers \ {w} : wk'[v].pc # "stream"]_vars
    /\ []((\A w \in Workers : wk[w].audio_path # "None") => Complete(wfile))

\* C16 (as claimed): a write to a stored row never lowers its scraped_at.
C16_ScrapedAtNeverDecreases ==
    [][\A i \in 1..Len(store) :
          /\ i <= Len(store')
          /\ store'[i].scraped_at >= store[i].scraped_at]_vars

\* C13: a store_episode call with the arguments of the call right before it
\* changes nothing but the scraped_at of the row of that id, which becomes the
\* time of the second call: no row is added, no other row and no other field
\* changes.
C13_SecondCallOnlyRestamps ==
    [][(op'.kind = "upsert" /\ op'.again) =>
          /\ Len(store') = Len(store)
          /\ \A i \in 1..Len(store) :
                store'[i] = IF store[i].id = op'.id
                            THEN [store[i] EXCEPT !.scraped_at = now']
                            ELSE store[i]]_vars

\* C13 witness: the same call was made twice in a row, the second at a later
\* time than the first, and the store holds another row besides
C13_Witness ==
    /\ op.kind = "upsert" /\ op.again
    /\ Len(store) = 2
    /\ RowOf(store, op.id).scraped_at = MaxClock
    /\ RowOf(store, op.id).word_count > 0
    /\ \E i \in 1..Len(store) : store[i].scraped_at < MaxClock

\* the number of whitespace-separated tokens of a text: the positions where a
\* character that is not whitespace starts the text or follows whitespace
TokenCount(text) ==
    IF text = None THEN 0
    ELSE Cardinality({i \in 1..Len(text) :
                         /\ text[i] \notin Whitespace
                         /\ i = 1 \/ text[i - 1] \in Whitespace})

\* C14: in every store state each row's word_count is the number of
\* whitespace-separated tokens of the transcript the row holds, 0 for an
\* absent or empty transcript, also after a call replaced the transcript of a
\* stored id.
C14_WordCountOfTranscript ==
    \A i \in 1..Len(store) : store[i].word_count = TokenCount(store[i].transcript)

\* C14 witness: a call replaced the transcript of a stored row by one with
\* three tokens between runs of mixed whitespace, and another row holds an
\* absent or empty transcript with count 0
C14_Witness ==
    /\ op.kind = "upsert" /\ op.existed /\ op.differ
    /\ RowOf(store, op.id).word_count = 3
    /\ \E i \in 1..Len(store) : store[i].word_count = 0 /\ store[i].id # op.id

\* C15: download_audio for a url whose cache file exists returns the cache
\* path of that url, the same path the earlier call wrote to, without a
\* request (the call neither enters the chunk loop nor raises) and without
\* touching any file of the cache.
C15_CacheHitReturnsPath ==
    [][(pc = "download" /\ files[EpisodeCachePath(ep.audio_url)].present) =>
          /\ pc' = "transcribe"
          /\ audio_path' = EpisodeCachePath(ep.audio_url)
          /\ files' = files
          /\ written' = 0
          /\ last' # "raised"]_vars

\* C15 witness: a complete file was in the cache when download_audio ran, and
\* the call returned its path with no chunk received
C15_Witness ==
    /\ pc = "transcribe"
    /\ written = 0
    /\ audio_path = EpisodeCachePath(ep.audio_url)
    /\ files[audio_path] = FileOf(AudioChunks)

\* C20: when parse_feed raises in a scrape, the step writes nothing and counts
\* nothing, and the loops stand at the feed after the failed one: the next of
\* the group, else the first of the next group, else the summary; the command
\* does not stop there.
C20_ParseErrorSkipsFeed ==
    [][(pc = "parse" /\ cmd = "scrape" /\ last' = "parse_error") =>
          /\ store' = store /\ files' = files
          /\ total_new' = total_new /\ total_skipped' = total_skipped
          /\ cmd' = "scrape" /\ work' = work
          /\ IF fi < Len(work[gi])
             THEN pc' = "parse" /\ gi' = gi /\ fi' = fi + 1
             ELSE IF gi < Len(work)
             THEN pc' = "parse" /\ gi' = gi + 1 /\ fi' = 1
             ELSE pc' = "done"]_vars

\* C20 witness: the first feed of a scrape over all groups failed to parse, and
\* the command stands at the second feed with nothing stored
C20_Witness ==
    /\ cmd = "scrape" /\ last = "parse_error"
    /\ pc = "parse" /\ gi = 1 /\ fi = 2
    /\ Len(work) = 2
    /\ store = <<>>

\* rows is exactly the rows of the store scraped at or after t - h whose feed
\* is in feeds, each once, ordered by scraped_at descending
ExactlyRecent(rows, t, h, feeds) ==
    /\ {rows[i].id : i \in 1..Len(rows)} =
          {store[j].id : j \in {k \in 1..Len(store) :
                                  /\ store[k].scraped_at >= t - h
                                  /\ store[k].feed_name \in feeds}}
    /\ \A i \in 1..Len(rows) : \E j \in 1..Len(store) : rows[i] = store[j]
    /\ \A i, j \in 1..Len(rows) : i < j =>
          /\ rows[i].id # rows[j].id
          /\ rows[i].scraped_at >= rows[j].scraped_at

\* C17: what an export fetches, and what fetch_recent and fetch_by_group
\* return to a direct caller, is exactly the stored rows with scraped_at >=
\* now - lookback_hours (of the feeds given, when feeds are given), each once,
\* by scraped_at descending; with lookback_hours = 168 a row scraped 1 hour
\* ago is returned and a row scraped 200 hours ago is not.
C17_ExactlyTheWindow ==
    /\ xpc \in {"loop", "return", "returned"} =>
          /\ ExactlyRecent(xepisodes, now, xargs.lookback_hours,
                           IF xargs.group_feeds = <<>> THEN FeedNames
                           ELSE {xargs.group_feeds[i] : i \in 1..Len(xargs.group_feeds)})
          /\ xargs.lookback_hours = 168 =>
                \A i \in 1..Len(xepisodes) : xepisodes[i].scraped_at # now - 200
    /\ query.fn # "none" => ExactlyRecent(query.rows, now, query.lookback_hours, query.feeds)
    /\ (query.fn # "none" /\ query.lookback_hours = 168) =>
          /\ \A i \in 1..Len(query.rows) : query.rows[i].scraped_at = now - 1
          /\ \A j \in 1..Len(store) :
                (store[j].scraped_at = now - 1 /\ store[j].feed_name \in query.feeds) =>
                    \E i \in 1..Len(query.rows) : query.rows[i] = store[j]

\* C17 witness: with lookback_hours = 168 an export over rows scraped 1 hour
\* and 200 hours ago fetched the two recent ones and not the old one
C17_Witness ==
    /\ xpc = "returned"
    /\ xargs.lookback_hours = 168 /\ xargs.group_feeds = <<>>
    /\ Len(store) = 3 /\ Len(xepisodes) = 2
    /\ \E j \in 1..Len(store) : store[j].scraped_at = now - 200
    /\ \A i \in 1..Len(xepisodes) : xepisodes[i].scraped_at = now - 1

\* C18: the title of every normalized episode is never empty: an entry with
\* a missing or an empty title gets the placeholder title.
C18_TitleNeverEmpty ==
    norm # NoEpisode =>
        /\ norm.title # <<>>
        /\ ~Truthy(raw.title) => norm.title = <<"Untitled">>

\* the text of a url before its query string
StripQuery(u) ==
    LET qs == {i \in 1..Len(u) : u[i] = "?"}
    IN  IF qs = {} THEN u ELSE SubSeq(u, 1, LeastOf(qs) - 1)

\* type is audio-flagged, or the url, lower-cased and without its query
\* string, ends in an audio extension
AudioMatch(type, url) ==
    HasAudio(type) \/ EndsWithAudioExt(Lower(StripQuery(url)))

\* C19: audio url extraction returns the url of the first enclosure, else of
\* the first link, whose type is audio-flagged or whose url, lower-cased and
\* with the query string stripped, ends in .mp3, .m4a, .ogg or .wav; absent
\* when nothing matches.
C19_FirstAudioMatch ==
    norm # NoEpisode =>
        LET encs == raw.enclosures
            links == raw.links
            EncUrl(i) == OrElse(encs[i].href, encs[i].url)
            LinkUrl(i) == GetOr(links[i].href, <<>>)
            em == {i \in 1..Len(encs) :
                     Truthy(EncUrl(i)) /\ AudioMatch(encs[i].type, EncUrl(i))}
            lm == {i \in 1..Len(links) : AudioMatch(links[i].type, LinkUrl(i))}
        IN  /\ em # {} => norm.audio_url = EncUrl(LeastOf(em))
            /\ em = {} /\ lm # {} => norm.audio_url = LinkUrl(LeastOf(lm))
            /\ em = {} /\ lm = {} => ~Truthy(norm.audio_url)

\* the fetched row at index i is skipped by the loop in the current state: its
\* transcript is blank, or its feed has reached a positive per-feed cap
Skipped(i) ==
    \/ Strip(xepisodes[i].transcript) = <<>>
    \/ /\ xargs.max_episodes_per_feed > 0
       /\ per_feed_counts[xepisodes[i].feed_name] >= xargs.max_episodes_per_feed

IsSelected(i) == \E k \in 1..Len(selected) : selected[k].episodeId = xepisodes[i].id

\* C21: in the bounded JSON export a skipped episode (blank transcript, or
\* feed at its per-feed cap) changes neither the selection nor any per-feed
\* counter and does not end the loop; so when the export returns below the
\* global cap, every fetched episode was either selected or skipped for one
\* of the two reasons.
C21_SkipsCostNothing ==
    /\ [][(xpc = "loop" /\ xi' = xi + 1 /\ Skipped(xi)) =>
            (selected' = selected /\ per_feed_counts' = per_feed_counts /\ xpc' = "loop")]_vars
    /\ [](xpc = "returned" /\ Len(selected) < xargs.max_episodes_total =>
            \A i \in 1..Len(xepisodes) : IsSelected(i) \/ Skipped(i))

\* C21 witness: the export returned having skipped an episode of feed A at
\* the per-feed cap and selected a later episode of feed B
C21_Witness ==
    /\ xpc = "returned"
    /\ xargs.max_episodes_per_feed = 1
    /\ \E i, j, k \in 1..Len(xepisodes) :
        /\ i < j /\ j < k
        /\ xepisodes[i].feed_name = "A" /\ IsSelected(i)
        /\ xepisodes[j].feed_name = "A" /\ Strip(xepisodes[j].transcript) # <<>>
        /\ ~IsSelected(j)
        /\ xepisodes[k].feed_name = "B" /\ IsSelected(k)

\* the place in the document of the entry the k-th episode returned was made of
PlaceOf(k) == CHOOSE i \in 1..Len(fentries) : <<"guid">> \o fentries[i].id = fepisodes[k].id

\* entry i comes before entry j newest-first: a larger timestamp, or the same
\* timestamp and an earlier place in the document
Before(i, j) ==
    \/ GetEntryTimestamp(fentries[i]) > GetEntryTimestamp(fentries[j])
    \/ /\ GetEntryTimestamp(fentries[i]) = GetEntryTimestamp(fentries[j])
       /\ i < j

\* C22: parse_feed returns min(max_episodes, number of entries) episodes, made
\* of the entries with the largest timestamps (published, else updated, else
\* 0), newest first, entries of equal timestamp in their order in the document.
C22_NewestFirstStable ==
    fpc = "parsed" =>
        LET m == Len(fepisodes)
            places == {PlaceOf(k) : k \in 1..m}
        IN  /\ m = (IF fmax < Len(fentries) THEN fmax ELSE Len(fentries))
            /\ \A k \in 1..m : \E i \in 1..Len(fentries) :
                   <<"guid">> \o fentries[i].id = fepisodes[k].id
            /\ \A k, l \in 1..m : k < l => Before(PlaceOf(k), PlaceOf(l))
            /\ \A i \in (1..Len(fentries)) \ places : \A k \in 1..m : Before(PlaceOf(k), i)

\* C22 witness: an older dated entry, a newer one and an undated one of the
\* older one's timestamp; the newer and then the older are returned, and the
\* undated one behind them is cut
C22_Witness ==
    /\ fpc = "parsed"
    /\ Len(fentries) = 3 /\ fmax = 2
    /\ fentries[1].published_parsed # <<>> /\ GetEntryTimestamp(fentries[1]) = 0
    /\ GetEntryTimestamp(fentries[2]) = 1
    /\ fentries[3].published_parsed = <<>> /\ GetEntryTimestamp(fentries[3]) = 0
    /\ PlaceOf(1) = 2 /\ PlaceOf(2) = 1

\* C23: in sequential scrape and adhoc runs the store is written for an id
\* only when the dedup check found no row of that id, so a stored row never
\* changes again in this or in any later run: no field of it, transcript,
\* transcript_source, audio_path, scraped_at and word_count included.
C23_StoredRowsFrozen ==
    [][/\ Len(store') >= Len(store)
       /\ \A i \in 1..Len(store) : store'[i] = store[i]
       /\ store' # store => \A i \in 1..Len(store) : store[i].id # ep.id]_vars

\* C23 witness: a run that has stored nothing itself has just skipped an entry
\* whose row an earlier run stored
C23_Witness ==
    /\ cmd = "scrape" /\ last = "skipped"
    /\ total_new = 0 /\ total_skipped = 1
    /\ Len(store) = 1

\* the cache file of the current entry's audio is complete
AudioCached == files[EpisodeCachePath(ep.audio_url)] = FileOf(AudioChunks)

\* C24: an entry abandoned because transcription raised leaves no row of its
\* id and keeps the downloaded file; an entry whose id has no row is attempted
\* again when a run reaches it; a complete cache file is never touched again
\* and the download of its url is a cache hit with no chunk received; and an
\* entry whose transcription returned text is eventually stored.
C24_RetryAfterFailedTranscription ==
    /\ [][(pc = "transcribe" /\ last' = "raised") =>
            /\ store' = store /\ files' = files
            /\ \A i \in 1..Len(store') : store'[i].id # ep.id]_vars
    /\ [][(pc = "episode" /\ \A i \in 1..Len(store) : store[i].id # ep.id) =>
            (pc' = "fetch" /\ ep' = ep /\ last' = "new")]_vars
    /\ [][\A p \in CachePaths : files[p] = FileOf(AudioChunks) => files'[p] = files[p]]_vars
    /\ [][(pc = "download" /\ AudioCached) =>
            (pc' = "transcribe" /\ written' = 0 /\ files' = files)]_vars
    /\ \A i \in Ids :
          (pc = "store" /\ ep.id = i /\ transcript_source = "whisper")
              ~> (\E k \in 1..Len(store) : store[k].id = i /\ store[k].transcript_source = "whisper")

\* C24 witness: a run that found the complete file of an earlier attempt in
\* the cache, for an entry no run had stored, received no chunk, had the
\* transcription succeed and stands at the store call
C24_Witness ==
    /\ pc = "store" /\ transcript_source = "whisper"
    /\ "download" \in calls /\ written = 0
    /\ AudioCached /\ audio_path = EpisodeCachePath(ep.audio_url)
    /\ total_new = 0
    /\ store = <<>>

\* C25: of the entries of one id that a run handles, the first to obtain a
\* transcript is the one stored: a write adds one row of a new id that holds
\* that entry's metadata and transcript; an entry of the same id that comes
\* later finds the row, is skipped (and counted as skipped by scrape) without
\* any fetch, and nothing of it is written.
C25_FirstOfAnIdWins ==
    [][/\ store' # store =>
            /\ Len(store') = Len(store) + 1
            /\ \A i \in 1..Len(store) : store'[i] = store[i] /\ store[i].id # ep.id
            /\ LET r == store'[Len(store')]
               IN  /\ r.id = ep.id /\ r.title = ep.title
                   /\ r.published_at = ep.published_at /\ r.audio_url = ep.audio_url
                   /\ r.transcript = transcript
                   /\ r.transcript_source = transcript_source
                   /\ r.audio_path = audio_path
            /\ total_new' = total_new + 1
       /\ (pc = "episode" /\ total_new > 0 /\ \E i \in 1..Len(store) : store[i].id = ep.id) =>
            /\ store' = store
            /\ last' = "skipped"
            /\ pc' # "fetch" /\ calls' = {}
            /\ total_new' = total_new
            /\ cmd = "scrape" => total_skipped' = total_skipped + 1]_vars

\* C25 witness: a scrape run that started on an empty store has stored one
\* entry and then skipped another: the second entry had the id of the first
C25_Witness ==
    /\ cmd = "scrape" /\ last = "skipped"
    /\ total_new = 1 /\ total_skipped = 1
    /\ Len(store) = 1
    /\ now = 1

====
